---- MODULE Spec2Model ----
(***************************************************************************)
(* Product Gallery API: the product controller (createProduct,            *)
(* getProducts, getProduct, updateProduct, deleteProduct,                 *)
(* getProductsByCategory), the Product schema it validates against, the   *)
(* Cloudinary image store it calls and the document store it writes.      *)
(*                                                                         *)
(* Every handler is an async function.  Each action below is one segment  *)
(* of a handler: the completion of the call it awaits together with the   *)
(* synchronous code that follows up to the next await.  The arrival of a  *)
(* request is merged with the first segment of its handler.  Requests run *)
(* in slots; two slots give every interleaving of two requests.           *)
(*                                                                         *)
(* Around the controller: the product router with its middleware order,   *)
(* the error middleware and the catch-all route of server.js, Register    *)
(* on the User collection, and the browser client's session state         *)
(* (currentUser, currentToken, the token in localStorage).                *)
(***************************************************************************)
EXTENDS Integers, Sequences, FiniteSets, TLC

(* ---------------------------------------------------------------------- *)
(* Bounds                                                                  *)
(* ---------------------------------------------------------------------- *)
MaxProducts == 3        \* product ids ever allocated
MaxImages == 3          \* images ever uploaded

Users == {"u1", "u2"}   \* authenticated users (req.user._id)
Slots == {"r1", "r2"}   \* requests in flight at the same time

\* The :id route parameter: 0 stands for a string that is not a 24-digit
\* hexadecimal ObjectId ("abc"), any other value for a well-formed id.
IdParams == 0..MaxProducts

(* ---------------------------------------------------------------------- *)
(* JavaScript values                                                       *)
(* ---------------------------------------------------------------------- *)
Undefined == [k |-> "undefined"]
NaN == [k |-> "NaN"]
Num(n) == [k |-> "number", n |-> n]
\* A string.  Titles and descriptions are sequences of characters; the
\* other form fields are atoms.
Str(s) == [k |-> "string", s |-> s]
\* The decimal numeral of n, as it arrives in a query string or form field.
Numeral(n) == [k |-> "numeral", n |-> n]
\* A non-empty string that does not start with a number ("abc").
Junk == [k |-> "junk"]
\* The empty string of a query parameter or numeric form field.
Empty == [k |-> "empty"]

\* parseInt / parseFloat of a query or form value (integers only here).
parseNumber(v) ==
    IF v.k = "numeral" THEN Num(v.n) ELSE NaN

\* `x || d` for a number x: NaN and 0 are falsy.
OrDefault(x, d) ==
    IF x.k = "number" /\ x.n # 0 THEN x.n ELSE d

\* Truthiness of a form value that is a character sequence.
TruthyText(v) == v.k = "string" /\ v.s # <<>>
\* Truthiness of a form value that is an atom.
TruthyAtom(v) == v.k \in {"numeral", "junk"} \/ (v.k = "string" /\ v.s # "")

(* ---------------------------------------------------------------------- *)
(* Product schema                                                          *)
(* ---------------------------------------------------------------------- *)
TitleMaxLen == 100
DescriptionMaxLen == 1000

Categories ==
    {"Electronics", "Fashion", "Home & Garden", "Sports", "Books", "Toys",
     "Health & Beauty", "Food & Beverages", "Automotive", "Other"}

Bool(b) == [k |-> "boolean", b |-> b]
Url(n) == [k |-> "secure_url", n |-> n]
PublicId(n) == [k |-> "public_id", n |-> n]

RECURSIVE TrimLeft(_)
TrimLeft(s) ==
    IF s # <<>> /\ Head(s) = " " THEN TrimLeft(Tail(s)) ELSE s

RECURSIVE TrimRight(_)
TrimRight(s) ==
    IF s # <<>> /\ s[Len(s)] = " " THEN TrimRight(SubSeq(s, 1, Len(s) - 1)) ELSE s

\* The `trim: true` setter of title and description.
Trim(s) == TrimRight(TrimLeft(s))

\* Casting and setters applied to the value of a path, on construction of a
\* document and on the fields of an update.
CastPath(path, v) ==
    IF path \in {"title", "description"} /\ v.k = "string"
    THEN Str(Trim(v.s))
    ELSE v

\* The validators of one path: TRUE when value v (already cast) is rejected.
PathInvalid(path, v) ==
    CASE path = "title" ->
            \/ v.k # "string"
            \/ v.s = <<>>
            \/ Len(v.s) > TitleMaxLen
      [] path = "description" ->
            \/ v.k # "string"
            \/ v.s = <<>>
            \/ Len(v.s) > DescriptionMaxLen
      [] path = "category" ->
            \/ v.k # "string"
            \/ v.s \notin Categories
      [] path = "price" ->
            \/ v.k = "NaN"
            \/ (v.k = "number" /\ v.n < 0)
      [] path \in {"imageURL", "imagePublicId", "shopId"} ->
            v.k = "undefined"
      [] OTHER -> FALSE

\* The paths of record d that fail validation.
ValidationErrors(d) ==
    {path \in DOMAIN d : PathInvalid(path, d[path])}

(* ---------------------------------------------------------------------- *)
(* Requests                                                                *)
(* ---------------------------------------------------------------------- *)
ObjectId(x) == [k |-> "objectid", v |-> x]

\* A string of n characters "x".
Long(n) == [i \in 1..n |-> "x"]

\* The multipart form of a well-formed create request.
ValidBody ==
    [title |-> Str(<<" ", "x">>), description |-> Str(<<"d">>),
     category |-> Str("Electronics"), price |-> Numeral(5),
     inStock |-> Undefined, shopId |-> Undefined]

\* A form with no field at all.
EmptyBody ==
    [title |-> Undefined, description |-> Undefined, category |-> Undefined,
     price |-> Undefined, inStock |-> Undefined, shopId |-> Undefined]

\* Single-field departures from ValidBody sent to POST /api/products.
CreateVariants ==
    {<<"title", Undefined>>, <<"title", Str(<<" ">>)>>,
     <<"title", Str(Long(TitleMaxLen + 1))>>,
     <<"description", Undefined>>,
     <<"description", Str(Long(DescriptionMaxLen + 1))>>,
     <<"category", Undefined>>, <<"category", Str("Gadgets")>>,
     <<"category", Str("Books")>>,
     <<"price", Numeral(-5)>>, <<"price", Junk>>, <<"price", Undefined>>,
     <<"inStock", Str("false")>>, <<"shopId", Str("u2")>>}

CreateBodies ==
    {ValidBody} \cup {[ValidBody EXCEPT ![v[1]] = v[2]] : v \in CreateVariants}

\* Single-field patches sent to PUT /api/products/:id.
PatchVariants ==
    {<<"title", Str(<<"y", " ">>)>>, <<"title", Str(<<" ">>)>>,
     <<"title", Str(<<>>)>>,
     <<"category", Str("Books")>>, <<"category", Str("Gadgets")>>,
     <<"price", Numeral(0)>>, <<"price", Numeral(-5)>>, <<"price", Empty>>,
     <<"inStock", Str("false")>>, <<"shopId", Str("u2")>>}

PatchBodies ==
    {EmptyBody} \cup {[EmptyBody EXCEPT ![v[1]] = v[2]] : v \in PatchVariants}

\* req.file after upload.single('image'): the uploaded file or nothing.
Files == {"none", "file"}

\* The query strings sent to the two listing routes.
NoQuery ==
    [category |-> Undefined, shopId |-> Undefined, search |-> Undefined,
     page |-> Undefined, limit |-> Undefined]

Queries ==
    {[NoQuery EXCEPT !.category = c, !.page = p, !.limit = l] :
        c \in {Undefined, Str("Electronics"), Str("Books")},
        p \in {Undefined, Numeral(1), Numeral(2)},
        l \in {Undefined, Numeral(1), Numeral(2)}}
    \cup {[NoQuery EXCEPT !.shopId = Str("u1")],
          [NoQuery EXCEPT !.shopId = Junk],
          [NoQuery EXCEPT !.search = Str(<<"x">>)],
          [NoQuery EXCEPT !.page = Numeral(0), !.limit = Numeral(0)],
          [NoQuery EXCEPT !.page = Junk, !.limit = Junk],
          [NoQuery EXCEPT !.page = Numeral(-1)],
          [NoQuery EXCEPT !.limit = Numeral(-1)]}

\* An error object handed to next(err).
Error(name, message) ==
    [name |-> name, message |-> message, code |-> Undefined,
     statusCode |-> Undefined, keyValue |-> <<>>, errors |-> <<>>,
     multer |-> FALSE]

\* new multer.MulterError(code)
MulterError(code, message) ==
    [Error("MulterError", message) EXCEPT !.code = Str(code), !.multer = TRUE]

\* The errors upload.single('image') passes on: the size limit, a file under
\* another field name, a multipart body that ends early.
UploadErrors ==
    {MulterError("LIMIT_FILE_SIZE", "File too large"),
     MulterError("LIMIT_UNEXPECTED_FILE", "Unexpected field"),
     Error("Error", "Unexpected end of form")}

\* The errors express.json() passes on: they carry their own statusCode.
JsonErrors ==
    {[Error("SyntaxError", "Unexpected token } in JSON at position 5")
         EXCEPT !.statusCode = Num(400)],
     [Error("PayloadTooLargeError", "request entity too large")
         EXCEPT !.statusCode = Num(413)]}

\* The Authorization header: none, a bearer token that does not verify
\* (malformed, expired, forged), or the token issued to a user.
NoToken == [k |-> "none"]
BadToken == [k |-> "invalid"]
Token(user) == [k |-> "token", user |-> user]
BadTokens == {NoToken, BadToken}

NoReq ==
    [op |-> "none", user |-> "none", id |-> 0, body |-> EmptyBody,
     file |-> "none", category |-> Undefined, query |-> NoQuery,
     token |-> NoToken, error |-> Undefined, route |-> "none"]

NoLoc ==
    [product |-> Undefined, data |-> Undefined, found |-> <<>>,
     calls |-> {}, destroyed |-> {}, failed |-> "none"]

NoResp == [status |-> 0, body |-> Undefined]

Patch(path, v) == [EmptyBody EXCEPT ![path] = v]

\* The traffic of a run: which slots take requests, which users send them,
\* how many products they create, and which forms and query strings they send.
\* Two requests at a time on one product, well-formed forms.
RaceWorkload ==
    [slots |-> Slots,
     tokens |-> {NoToken},
     errors |-> {Error("Error", "Unexpected end of form"),
                 [Error("PayloadTooLargeError", "request entity too large")
                     EXCEPT !.statusCode = Num(413)]},
     users |-> {"u1"},
     products |-> 1,
     creates |-> {ValidBody},
     patches |-> {EmptyBody, Patch("category", Str("Books"))},
     queries |-> {NoQuery,
                  [NoQuery EXCEPT !.category = Str("Electronics"),
                                  !.page = Numeral(1), !.limit = Numeral(1)]}]

\* One request at a time, every form.
FormsWorkload ==
    [slots |-> {"r1"},
     tokens |-> BadTokens,
     errors |-> UploadErrors \cup JsonErrors,
     users |-> {"u1"},
     products |-> 1,
     creates |-> CreateBodies,
     patches |-> PatchBodies,
     queries |-> {NoQuery}]

\* One request at a time, every query string.
ListWorkload ==
    [slots |-> {"r1"},
     tokens |-> {BadToken},
     errors |-> {MulterError("LIMIT_FILE_SIZE", "File too large"),
                 [Error("PayloadTooLargeError", "request entity too large")
                     EXCEPT !.statusCode = Num(413)]},
     users |-> {"u1"},
     products |-> MaxProducts,
     creates |-> {ValidBody, [ValidBody EXCEPT !.category = Str("Books")]},
     patches |-> {EmptyBody},
     queries |-> Queries]

\* One request at a time, sent by either user.
OwnersWorkload ==
    [slots |-> {"r1"},
     tokens |-> BadTokens,
     errors |-> UploadErrors \cup JsonErrors,
     users |-> Users,
     products |-> 1,
     creates |-> {ValidBody},
     patches |-> {EmptyBody, Patch("category", Str("Books"))},
     queries |-> {NoQuery}]

(* ---------------------------------------------------------------------- *)
(* The document store (Mongoose model Product)                             *)
(* ---------------------------------------------------------------------- *)
Null == [k |-> "null"]

\* Product.findById(id) for a well-formed id.
findById(store, id) ==
    IF id \in DOMAIN store THEN store[id] ELSE Null

\* The update document with its undefined keys removed and its values cast.
CastUpdate(update) ==
    [path \in {q \in DOMAIN update : update[q] # Undefined} |->
        CastPath(path, update[path])]

\* Product.findByIdAndUpdate(id, update, {new: true}): the stored collection
\* afterwards.  No upsert: an absent id stays absent.
findByIdAndUpdate(store, id, update) ==
    IF id \in DOMAIN store
    THEN [store EXCEPT ![id] =
            [path \in DOMAIN store[id] |->
                IF path \in DOMAIN CastUpdate(update)
                THEN CastUpdate(update)[path]
                ELSE store[id][path]]]
    ELSE store

\* A delete that removes nothing.
findByIdAndDeleteKeeps(store, id) == store

\* Product.findByIdAndDelete(id): the stored collection afterwards.
findByIdAndDelete(store, id) ==
    [i \in DOMAIN store \ {id} |-> store[i]]

\* The words of a text, as the text index tokenises it on spaces.
RECURSIVE Words(_, _)
Words(s, word) ==
    IF s = <<>> THEN (IF word = <<>> THEN {} ELSE {word})
    ELSE IF Head(s) = " "
         THEN (IF word = <<>> THEN {} ELSE {word}) \cup Words(Tail(s), <<>>)
         ELSE Words(Tail(s), Append(word, Head(s)))

\* Does product p match the filter object of a find / countDocuments?
Matches(p, filter) ==
    /\ filter.category # Undefined => p.category = filter.category
    /\ filter.shopId # Undefined => p.shopId = ObjectId(filter.shopId.s)
    /\ filter.search # Undefined =>
          Words(filter.search.s, <<>>)
             \cap (Words(p.title.s, <<>>) \cup Words(p.description.s, <<>>)) # {}

\* The ids of set S, newest first (sort({createdAt: -1})).
RECURSIVE Newest(_, _)
Newest(store, S) ==
    IF S = {} THEN <<>>
    ELSE LET m == CHOOSE i \in S :
                    \A j \in S : store[j].createdAt <= store[i].createdAt
         IN  <<m>> \o Newest(store, S \ {m})

\* Product.find(filter).sort({createdAt: -1}).skip(skip).limit(limit).
\* A negative limit is treated by the server as its absolute value.
find(store, filter, skip, limit) ==
    LET ids == Newest(store, {i \in DOMAIN store : Matches(store[i], filter)})
        n == IF limit < 0 THEN 0 - limit ELSE limit
    IN  [k \in 1..(IF Len(ids) - skip < n
                   THEN (IF Len(ids) - skip < 0 THEN 0 ELSE Len(ids) - skip)
                   ELSE n) |-> store[ids[skip + k]]]

\* Product.countDocuments(filter).
countDocuments(store, filter) ==
    Cardinality({i \in DOMAIN store : Matches(store[i], filter)})

\* Math.floor in place of Math.ceil.
Floor(total, limit) ==
    IF limit < 0 THEN 0 - ((total + (0 - limit) - 1) \div (0 - limit))
    ELSE total \div limit

\* Math.ceil(total / limit) for total >= 0 and limit # 0.
Ceil(total, limit) ==
    IF limit < 0 THEN 0 - (total \div (0 - limit))
    ELSE IF total % limit = 0 THEN total \div limit
    ELSE (total \div limit) + 1

(* ---------------------------------------------------------------------- *)
(* State                                                                   *)
(* ---------------------------------------------------------------------- *)
VARIABLES
    products,   \* the stored Product collection: id -> document
    images,     \* the public ids of the images held by the image store
    nextId,     \* the next product id
    nextImg,    \* the next public id the image store hands out
    pc,         \* per slot: where its handler is suspended
    req,        \* per slot: the request
    loc,        \* per slot: the handler's local variables and call history
    resp,       \* per slot: the response sent
    deleted,    \* ids whose DELETE was answered with success
    workload,   \* the traffic of this run
    accounts,   \* the stored User collection
    currentUser,    \* browser client: `let currentUser`
    currentToken,   \* browser client: `let currentToken`
    localStorage,   \* browser client: localStorage's 'token' item
    apiCalls        \* browser client: the fetches awaiting their response

\* The browser client's state.
client == <<currentUser, currentToken, localStorage, apiCalls>>

\* The service's state.
server ==
    <<products, images, nextId, nextImg, pc, req, loc, resp, deleted, workload,
      accounts>>

vars ==
    <<products, images, nextId, nextImg, pc, req, loc, resp, deleted, workload,
      accounts, client>>

\* `let currentUser = null; let currentToken = null;`, nothing saved and no
\* fetch under way.
NoSession ==
    /\ currentUser = Null
    /\ currentToken = Null
    /\ localStorage = Null
    /\ apiCalls = {}

Start(w) ==
    /\ workload = w
    /\ products = <<>>
    /\ images = {}
    /\ nextId = 1
    /\ nextImg = 1
    /\ pc = [r \in Slots |-> "idle"]
    /\ req = [r \in Slots |-> NoReq]
    /\ loc = [r \in Slots |-> NoLoc]
    /\ resp = [r \in Slots |-> NoResp]
    /\ deleted = {}
    /\ accounts = {}
    /\ NoSession

\* A response is delivered (Finish) before any handler takes its next step:
\* delivery touches nothing but the slot, so no interleaving is lost.
Delivered == \A r \in Slots : pc[r] # "done"

\* res.status(status).json(body): the handler of slot r ends.
Respond(r, status, body) ==
    /\ pc' = [pc EXCEPT ![r] = "done"]
    /\ resp' = [resp EXCEPT ![r] = [status |-> status, body |-> body]]

Failure(message) == [success |-> FALSE, message |-> message]

\* cloudinary.uploader.upload_stream resolving: the image is stored under a
\* fresh public id.
Uploaded ==
    /\ nextImg <= MaxImages
    /\ images' = images \cup {nextImg}
    /\ nextImg' = nextImg + 1

uploadResult == [secure_url |-> Url(nextImg), public_id |-> PublicId(nextImg)]

(* ---------------------------------------------------------------------- *)
(* The HTTP layer: routes, middleware, the error middleware                *)
(* ---------------------------------------------------------------------- *)
\* The routes with DELETE left open: no authentication step on it.
RoutesOpenDelete ==
    [createProduct |-> <<"authMiddleware", "upload", "createProduct">>,
     getProducts |-> <<"getProducts">>,
     getProductsByCategory |-> <<"getProductsByCategory">>,
     getProduct |-> <<"getProduct">>,
     updateProduct |-> <<"authMiddleware", "upload", "updateProduct">>,
     deleteProduct |-> <<"deleteProduct">>]

\* The product routes: the middleware of each route in the order the router
\* runs it, the handler last.
Routes ==
    [createProduct |-> <<"authMiddleware", "upload", "createProduct">>,
     getProducts |-> <<"getProducts">>,
     getProductsByCategory |-> <<"getProductsByCategory">>,
     getProduct |-> <<"getProduct">>,
     updateProduct |-> <<"authMiddleware", "upload", "updateProduct">>,
     deleteProduct |-> <<"authMiddleware", "deleteProduct">>]

\* The steps of a route that run before `step`.
Preceding(op, step) ==
    {Routes[op][i] : i \in {j \in 1..Len(Routes[op]) :
        \E k \in (j + 1)..Len(Routes[op]) : Routes[op][k] = step}}

\* The user the token verifies to, "none" if it does not verify.
VerifyToken(token) == IF token.k = "token" THEN token.user ELSE "none"

\* The authentication step: the request continues with req.user set, or is
\* answered 401.
authMiddleware(token) ==
    IF VerifyToken(token) = "none"
    THEN [next |-> FALSE, status |-> 401,
          body |-> [success |-> FALSE, message |-> "Not authorized"]]
    ELSE [next |-> TRUE, user |-> VerifyToken(token)]

\* The Authorization headers with which a request gets as far as `step` of
\* its route: any header when no authentication step runs before it.
Credentials(op, step) ==
    {Token(u) : u \in workload.users}
        \cup (IF "authMiddleware" \in Preceding(op, step) THEN {} ELSE workload.tokens)

DuplicateKey == 11000

\* The store's E11000 error on a unique index.
DuplicateKeyError(field) ==
    [Error("MongoServerError", "E11000 duplicate key error collection: users")
        EXCEPT !.code = Num(DuplicateKey), !.keyValue = <<field>>]

\* A Mongoose ValidationError with one message per failed path.
ValidationError(messages) ==
    [Error("ValidationError", "User validation failed") EXCEPT !.errors = messages]

\* field.charAt(0).toUpperCase() + field.slice(1)
Capitalize(field) ==
    CASE field = "email" -> "Email"
      [] field = "username" -> "Username"
      [] OTHER -> field

\* messages.join(', ')
RECURSIVE Join(_)
Join(messages) ==
    IF messages = <<>> THEN ""
    ELSE IF Len(messages) = 1 THEN Head(messages)
    ELSE Head(messages) \o ", " \o Join(Tail(messages))

\* The error middleware without its duplicate-key class.
errorHandlerNoDuplicate(err) ==
    LET spread == [message |-> err.message, statusCode |-> err.statusCode]
        cast == IF err.name = "CastError"
                THEN [message |-> "Resource not found", statusCode |-> Num(404)]
                ELSE spread
        val == IF err.name = "ValidationError"
               THEN [message |-> Join(err.errors), statusCode |-> Num(400)]
               ELSE cast
        error == IF err.multer
                 THEN IF err.code = Str("LIMIT_FILE_SIZE")
                      THEN [message |-> "File too large. Maximum size is 5MB",
                            statusCode |-> Num(400)]
                      ELSE [message |-> "File upload error", statusCode |-> Num(400)]
                 ELSE val
    IN  [status |-> OrDefault(error.statusCode, 500),
         body |-> [success |-> FALSE,
                   message |-> IF error.message # "" THEN error.message
                               ELSE "Server Error"]]

\* The error middleware: the status and the body it sends for err.
errorHandler(err) ==
    LET spread == [message |-> err.message, statusCode |-> err.statusCode]
        cast == IF err.name = "CastError"
                THEN [message |-> "Resource not found", statusCode |-> Num(404)]
                ELSE spread
        dup == IF err.code = Num(DuplicateKey)
               THEN [message |-> Capitalize(Head(err.keyValue)) \o " already exists",
                     statusCode |-> Num(400)]
               ELSE cast
        val == IF err.name = "ValidationError"
               THEN [message |-> Join(err.errors), statusCode |-> Num(400)]
               ELSE dup
        error == IF err.multer
                 THEN IF err.code = Str("LIMIT_FILE_SIZE")
                      THEN [message |-> "File too large. Maximum size is 5MB",
                            statusCode |-> Num(400)]
                      ELSE [message |-> "File upload error", statusCode |-> Num(400)]
                 ELSE val
    IN  [status |-> OrDefault(error.statusCode, 500),
         body |-> [success |-> FALSE,
                   message |-> IF error.message # "" THEN error.message
                               ELSE "Server Error"]]

\* A request on a route that starts with the authentication step arrives
\* without a token that verifies: it is answered by that step.
unauthorized(r) ==
    /\ pc[r] = "idle" /\ r \in workload.slots /\ Delivered
    /\ \E op \in DOMAIN Routes, token \in workload.tokens :
          /\ Head(Routes[op]) = "authMiddleware"
          /\ ~authMiddleware(token).next
          /\ req' = [req EXCEPT ![r] =
                        [NoReq EXCEPT !.op = "authMiddleware", !.route = op,
                                      !.token = token]]
          /\ Respond(r, authMiddleware(token).status, authMiddleware(token).body)
    /\ loc' = loc
    /\ UNCHANGED <<products, images, nextId, nextImg, deleted, workload, accounts, client>>

\* upload.single('image') fails on a multipart route and calls next(err):
\* the error middleware answers.
uploadRejected(r) ==
    /\ pc[r] = "idle" /\ r \in workload.slots /\ Delivered
    /\ \E op \in DOMAIN Routes, err \in workload.errors \cap UploadErrors :
          /\ \E i \in 1..Len(Routes[op]) : Routes[op][i] = "upload"
          /\ \E token \in Credentials(op, "upload") :
                req' = [req EXCEPT ![r] =
                           [NoReq EXCEPT !.op = "upload", !.route = op,
                                         !.token = token,
                                         !.user = VerifyToken(token),
                                         !.error = err]]
          /\ Respond(r, errorHandler(err).status, errorHandler(err).body)
    /\ loc' = [loc EXCEPT ![r].failed = "upload.single"]
    /\ UNCHANGED <<products, images, nextId, nextImg, deleted, workload, accounts, client>>

\* express.json() fails on the body of a JSON route (the auth routes; the
\* product writes are multipart and pass it untouched) and calls next(err).
jsonRejected(r) ==
    /\ pc[r] = "idle" /\ r \in workload.slots /\ Delivered
    /\ \E op \in {"register", "login"}, err \in workload.errors \cap JsonErrors :
          /\ req' = [req EXCEPT ![r] =
                        [NoReq EXCEPT !.op = "express.json", !.route = op,
                                      !.error = err]]
          /\ Respond(r, errorHandler(err).status, errorHandler(err).body)
    /\ loc' = [loc EXCEPT ![r].failed = "express.json"]
    /\ UNCHANGED <<products, images, nextId, nextImg, deleted, workload, accounts, client>>

\* GET on a path under /api that no router answers: the catch-all route.
apiFallback(r) ==
    /\ pc[r] = "idle" /\ r \in workload.slots /\ Delivered
    /\ req' = [req EXCEPT ![r] = [NoReq EXCEPT !.op = "fallback"]]
    /\ Respond(r, 404, [message |-> "API endpoint not found"])
    /\ loc' = loc
    /\ UNCHANGED <<products, images, nextId, nextImg, deleted, workload, accounts, client>>

(* ---------------------------------------------------------------------- *)
(* createProduct                                                           *)
(* ---------------------------------------------------------------------- *)
\* The image check left out.
MissingFileIgnored(file) == FALSE

\* `if (!req.file)`: is the request turned away for lack of an image?
MissingFile(file) == file = "none"

\* new Product({...}) from the form fields, the upload result and req.user.
NewProduct(body, user, upload) ==
    [title |-> CastPath("title", body.title),
     description |-> CastPath("description", body.description),
     imageURL |-> upload.secure_url,
     imagePublicId |-> upload.public_id,
     shopId |-> ObjectId(user),
     category |-> body.category,
     price |-> IF TruthyAtom(body.price) THEN parseNumber(body.price) ELSE Undefined,
     inStock |-> Bool(body.inStock # Str("false"))]

\* POST /api/products arrives (authenticated, multipart parsed); the handler
\* runs up to `await uploadToCloudinary(req.file)`.
createProduct(r) ==
    /\ pc[r] = "idle" /\ r \in workload.slots /\ Delivered
    /\ nextId <= workload.products
    /\ \E token \in Credentials("createProduct", "createProduct"),
          user \in Users \cup {"none"}, body \in workload.creates, file \in Files :
          /\ user = VerifyToken(token)
          /\ req' = [req EXCEPT ![r] =
                        [NoReq EXCEPT !.op = "createProduct", !.token = token,
                                      !.user = user,
                                      !.body = body, !.file = file]]
          /\ IF MissingFile(file)
             THEN /\ Respond(r, 400, Failure("Product image is required"))
                  /\ loc' = loc
             ELSE /\ pc' = [pc EXCEPT ![r] = "createUpload"]
                  /\ loc' = [loc EXCEPT ![r].calls = {"upload"}]
                  /\ resp' = resp
    /\ UNCHANGED <<products, images, nextId, nextImg, deleted, workload, accounts, client>>

\* The upload settles; on success the document is built and save() called.
createUpload(r) ==
    /\ pc[r] = "createUpload" /\ Delivered
    /\ \/ /\ req[r].file = "file"      \* file.buffer needs a file
          /\ Uploaded
          /\ IF req[r].user = "none"  \* req.user._id of undefined throws
             THEN /\ loc' = [loc EXCEPT ![r].failed = "TypeError"]
                  /\ Respond(r, 500, Failure("Server error creating product"))
             ELSE /\ loc' = [loc EXCEPT
                        ![r].data = NewProduct(req[r].body, req[r].user, uploadResult),
                        ![r].calls = @ \cup {"save"}]
                  /\ pc' = [pc EXCEPT ![r] = "createSave"]
                  /\ resp' = resp
       \/ /\ loc' = [loc EXCEPT ![r].failed = "upload"]
          /\ Respond(r, 500, Failure("Server error creating product"))
          /\ UNCHANGED <<images, nextImg>>
    /\ UNCHANGED <<products, nextId, req, deleted, workload, accounts, client>>

\* product.save() settles: validation, then the insert; populate follows.
\* The _id that new Product() generated is first visible here.
createSave(r) ==
    /\ pc[r] = "createSave" /\ Delivered
    /\ IF ValidationErrors(loc[r].data) # {}
       THEN /\ loc' = [loc EXCEPT ![r].failed = "validation"]
            /\ Respond(r, 500, Failure("Server error creating product"))
            /\ UNCHANGED <<products, nextId>>
       ELSE \/ /\ nextId <= workload.products
               /\ products' = products @@
                     (nextId :> (loc[r].data @@
                                 [_id |-> nextId, createdAt |-> nextId]))
               /\ nextId' = nextId + 1
               /\ loc' = loc
               /\ Respond(r, 201,
                     [success |-> TRUE,
                      message |-> "Product created successfully",
                      data |-> [product |-> products'[nextId]]])
            \/ /\ loc' = [loc EXCEPT ![r].failed = "store"]
               /\ Respond(r, 500, Failure("Server error creating product"))
               /\ UNCHANGED <<products, nextId>>
    /\ UNCHANGED <<images, nextImg, req, deleted, workload, accounts, client>>

(* ---------------------------------------------------------------------- *)
(* updateProduct                                                           *)
(* ---------------------------------------------------------------------- *)
\* The ownership test left out: every authenticated user passes.
IsOwnerAnyone(product, user) == TRUE

\* product.shopId.toString() === req.user._id.toString()
IsOwner(product, user) == product.shopId = ObjectId(user)

\* updateData built from the whole form, the shopId field included.
UpdateDataWithOwner(body, product) ==
    [title |-> IF TruthyText(body.title) THEN body.title ELSE product.title,
     description |-> IF TruthyText(body.description)
                     THEN body.description ELSE product.description,
     category |-> IF TruthyAtom(body.category)
                  THEN body.category ELSE product.category,
     price |-> IF body.price # Undefined
               THEN parseNumber(body.price) ELSE product.price,
     inStock |-> IF body.inStock # Undefined
                 THEN Bool(body.inStock # Str("false")) ELSE product.inStock,
     shopId |-> IF body.shopId # Undefined
                THEN ObjectId(body.shopId.s) ELSE product.shopId]

\* The updateData object built from the form and the product read.
UpdateData(body, product) ==
    [title |-> IF TruthyText(body.title) THEN body.title ELSE product.title,
     description |-> IF TruthyText(body.description)
                     THEN body.description ELSE product.description,
     category |-> IF TruthyAtom(body.category)
                  THEN body.category ELSE product.category,
     price |-> IF body.price # Undefined
               THEN parseNumber(body.price) ELSE product.price,
     inStock |-> IF body.inStock # Undefined
                 THEN Bool(body.inStock # Str("false")) ELSE product.inStock]

\* Only the URL assigned from the upload result.
WithImageUrlOnly(data, upload) ==
    data @@ [imageURL |-> upload.secure_url]

\* updateData after the two image fields are assigned from the upload result.
WithImage(data, upload) ==
    data @@ [imageURL |-> upload.secure_url, imagePublicId |-> upload.public_id]

\* PUT /api/products/:id arrives; findById settles and the handler runs up
\* to its next await.
updateProduct(r) ==
    /\ pc[r] = "idle" /\ r \in workload.slots /\ Delivered
    /\ \E token \in Credentials("updateProduct", "updateProduct"),
          user \in Users \cup {"none"}, id \in IdParams,
          body \in workload.patches, file \in Files :
          /\ user = VerifyToken(token)
          /\ req' = [req EXCEPT ![r] =
                        [NoReq EXCEPT !.op = "updateProduct", !.token = token,
                                      !.user = user,
                                      !.id = id, !.body = body, !.file = file]]
          /\ IF id = 0
             THEN /\ loc' = [loc EXCEPT ![r].failed = "cast"]
                  /\ Respond(r, 500, Failure("Server error updating product"))
             ELSE IF findById(products, id) = Null
             THEN /\ loc' = loc
                  /\ Respond(r, 404, Failure("Product not found"))
             ELSE IF user = "none"   \* req.user._id of undefined throws
             THEN /\ loc' = [loc EXCEPT ![r].failed = "TypeError"]
                  /\ Respond(r, 500, Failure("Server error updating product"))
             ELSE IF ~IsOwner(findById(products, id), user)
             THEN /\ loc' = [loc EXCEPT ![r].product = findById(products, id)]
                  /\ Respond(r, 403, Failure(
                        "Access denied. You can only update your own products."))
             ELSE /\ loc' = [loc EXCEPT
                        ![r].product = findById(products, id),
                        ![r].data = UpdateData(body, findById(products, id)),
                        ![r].calls = IF file = "file" THEN {"destroy"}
                                     ELSE {"findByIdAndUpdate"}]
                  /\ pc' = [pc EXCEPT ![r] =
                        IF file = "file" THEN "updateDestroy" ELSE "updateWrite"]
                  /\ resp' = resp
    /\ UNCHANGED <<products, images, nextId, nextImg, deleted, workload, accounts, client>>

\* cloudinary.uploader.destroy(product.imagePublicId) settles.
updateDestroy(r) ==
    /\ pc[r] = "updateDestroy" /\ Delivered
    /\ \/ /\ images' = images \ {loc[r].product.imagePublicId.n}
          /\ loc' = [loc EXCEPT
                ![r].destroyed = @ \cup {loc[r].product.imagePublicId.n},
                ![r].calls = @ \cup {"upload"}]
          /\ pc' = [pc EXCEPT ![r] = "updateUpload"]
          /\ resp' = resp
       \/ /\ loc' = [loc EXCEPT ![r].failed = "destroy"]
          /\ Respond(r, 500, Failure("Server error updating product"))
          /\ images' = images
    /\ UNCHANGED <<products, nextId, nextImg, req, deleted, workload, accounts, client>>

\* The upload of the new image settles.
updateUpload(r) ==
    /\ pc[r] = "updateUpload" /\ Delivered
    /\ \/ /\ Uploaded
          /\ loc' = [loc EXCEPT
                ![r].data = WithImage(@, uploadResult),
                ![r].calls = @ \cup {"findByIdAndUpdate"}]
          /\ pc' = [pc EXCEPT ![r] = "updateWrite"]
          /\ resp' = resp
       \/ /\ loc' = [loc EXCEPT ![r].failed = "upload"]
          /\ Respond(r, 500, Failure("Server error updating product"))
          /\ UNCHANGED <<images, nextImg>>
    /\ UNCHANGED <<products, nextId, req, deleted, workload, accounts, client>>

\* The update written without validation.
UpdateValidationOff(data) == {}

\* `runValidators: true`: the paths of the update that its validators reject.
UpdateValidation(data) == ValidationErrors(CastUpdate(data))

\* findByIdAndUpdate(id, updateData, {new: true, runValidators: true})
\* settles: update validators, then the write.
updateWrite(r) ==
    /\ pc[r] = "updateWrite" /\ Delivered
    /\ IF UpdateValidation(loc[r].data) # {}
       THEN /\ loc' = [loc EXCEPT ![r].failed = "validation"]
            /\ Respond(r, 500, Failure("Server error updating product"))
            /\ products' = products
       ELSE \/ /\ products' = findByIdAndUpdate(products, req[r].id, loc[r].data)
               /\ loc' = loc
               /\ Respond(r, 200,
                     [success |-> TRUE,
                      message |-> "Product updated successfully",
                      data |-> [product |-> findById(products', req[r].id)]])
            \/ /\ loc' = [loc EXCEPT ![r].failed = "store"]
               /\ Respond(r, 500, Failure("Server error updating product"))
               /\ products' = products
    /\ UNCHANGED <<images, nextId, nextImg, req, deleted, workload, accounts, client>>

(* ---------------------------------------------------------------------- *)
(* deleteProduct                                                           *)
(* ---------------------------------------------------------------------- *)
\* DELETE /api/products/:id arrives; findById settles and the handler runs
\* up to `await cloudinary.uploader.destroy(...)`.
deleteProduct(r) ==
    /\ pc[r] = "idle" /\ r \in workload.slots /\ Delivered
    /\ \E token \in Credentials("deleteProduct", "deleteProduct"),
          user \in Users \cup {"none"}, id \in IdParams :
          /\ user = VerifyToken(token)
          /\ req' = [req EXCEPT ![r] =
                        [NoReq EXCEPT !.op = "deleteProduct", !.token = token,
                                      !.user = user,
                                      !.id = id]]
          /\ IF id = 0
             THEN /\ loc' = [loc EXCEPT ![r].failed = "cast"]
                  /\ Respond(r, 500, Failure("Server error deleting product"))
             ELSE IF findById(products, id) = Null
             THEN /\ loc' = loc
                  /\ Respond(r, 404, Failure("Product not found"))
             ELSE IF user = "none"   \* req.user._id of undefined throws
             THEN /\ loc' = [loc EXCEPT ![r].failed = "TypeError"]
                  /\ Respond(r, 500, Failure("Server error deleting product"))
             ELSE IF ~IsOwner(findById(products, id), user)
             THEN /\ loc' = [loc EXCEPT ![r].product = findById(products, id)]
                  /\ Respond(r, 403, Failure(
                        "Access denied. You can only delete your own products."))
             ELSE /\ loc' = [loc EXCEPT
                        ![r].product = findById(products, id),
                        ![r].calls = {"destroy"}]
                  /\ pc' = [pc EXCEPT ![r] = "deleteDestroy"]
                  /\ resp' = resp
    /\ UNCHANGED <<products, images, nextId, nextImg, deleted, workload, accounts, client>>

\* cloudinary.uploader.destroy(product.imagePublicId) settles.
deleteDestroy(r) ==
    /\ pc[r] = "deleteDestroy" /\ Delivered
    /\ \/ /\ images' = images \ {loc[r].product.imagePublicId.n}
          /\ loc' = [loc EXCEPT
                ![r].destroyed = @ \cup {loc[r].product.imagePublicId.n},
                ![r].calls = @ \cup {"findByIdAndDelete"}]
          /\ pc' = [pc EXCEPT ![r] = "deleteRecord"]
          /\ resp' = resp
       \/ /\ loc' = [loc EXCEPT ![r].failed = "destroy"]
          /\ Respond(r, 500, Failure("Server error deleting product"))
          /\ images' = images
    /\ UNCHANGED <<products, nextId, nextImg, req, deleted, workload, accounts, client>>

\* Product.findByIdAndDelete(req.params.id) settles.
deleteRecord(r) ==
    /\ pc[r] = "deleteRecord" /\ Delivered
    /\ \/ /\ products' = findByIdAndDelete(products, req[r].id)
          /\ deleted' = deleted \cup {req[r].id}
          /\ loc' = loc
          /\ Respond(r, 200,
                [success |-> TRUE, message |-> "Product deleted successfully"])
       \/ /\ loc' = [loc EXCEPT ![r].failed = "store"]
          /\ Respond(r, 500, Failure("Server error deleting product"))
          /\ UNCHANGED <<products, deleted>>
    /\ UNCHANGED <<images, nextId, nextImg, req, workload, accounts, client>>

(* ---------------------------------------------------------------------- *)
(* getProduct, getProducts, getProductsByCategory                          *)
(* ---------------------------------------------------------------------- *)
\* GET /api/products/:id: findById settles and the handler answers.
getProduct(r) ==
    /\ pc[r] = "idle" /\ r \in workload.slots /\ Delivered
    /\ \E id \in IdParams :
          /\ req' = [req EXCEPT ![r] =
                        [NoReq EXCEPT !.op = "getProduct", !.id = id]]
          /\ IF id = 0
             THEN /\ loc' = [loc EXCEPT ![r].failed = "cast"]
                  /\ Respond(r, 500, Failure("Server error fetching product"))
             ELSE IF findById(products, id) = Null
             THEN /\ loc' = loc
                  /\ Respond(r, 404, Failure("Product not found"))
             ELSE /\ loc' = [loc EXCEPT ![r].product = findById(products, id)]
                  /\ Respond(r, 200,
                        [success |-> TRUE,
                         data |-> [product |-> findById(products, id)]])
    /\ UNCHANGED <<products, images, nextId, nextImg, deleted, workload, accounts, client>>

\* const page = parseInt(req.query.page) || 1
PageOf(query) == OrDefault(parseNumber(query.page), 1)
\* const limit = parseInt(req.query.limit) || 10
LimitOf(query) == OrDefault(parseNumber(query.limit), 10)
\* const skip = (page - 1) * limit
SkipOf(query) == (PageOf(query) - 1) * LimitOf(query)

\* The filter object getProducts builds from the query string.
FilterOf(query) ==
    [category |-> IF TruthyAtom(query.category) THEN query.category ELSE Undefined,
     shopId |-> IF TruthyAtom(query.shopId) THEN query.shopId ELSE Undefined,
     search |-> IF TruthyText(query.search) THEN query.search ELSE Undefined]

\* The filter object {category} of getProductsByCategory.
CategoryFilter(category) ==
    [category |-> category, shopId |-> Undefined, search |-> Undefined]

\* The filter of the listing request in slot r.
ListFilter(r) ==
    IF req[r].op = "getProducts" THEN FilterOf(req[r].query)
    ELSE CategoryFilter(req[r].category)

\* The find query of a listing settles.  A shopId that is no ObjectId fails
\* to cast and a negative skip is rejected by the server.
Listing(r, filter, query) ==
    IF filter.shopId = Junk \/ SkipOf(query) < 0
    THEN /\ loc' = [loc EXCEPT ![r].failed = "find"]
         /\ Respond(r, 500, Failure(
               IF req'[r].op = "getProducts"
               THEN "Server error fetching products"
               ELSE "Server error fetching products by category"))
    ELSE /\ loc' = [loc EXCEPT
               ![r].found = find(products, filter, SkipOf(query), LimitOf(query)),
               ![r].calls = {"countDocuments"}]
         /\ pc' = [pc EXCEPT ![r] = "countProducts"]
         /\ resp' = resp

\* GET /api/products arrives and its find query settles.
getProducts(r) ==
    /\ pc[r] = "idle" /\ r \in workload.slots /\ Delivered
    /\ \E query \in workload.queries :
          /\ req' = [req EXCEPT ![r] =
                        [NoReq EXCEPT !.op = "getProducts", !.query = query]]
          /\ Listing(r, FilterOf(query), query)
    /\ UNCHANGED <<products, images, nextId, nextImg, deleted, workload, accounts, client>>

\* GET /api/products/category/:category arrives and its find query settles.
getProductsByCategory(r) ==
    /\ pc[r] = "idle" /\ r \in workload.slots /\ Delivered
    /\ \E category \in {Str("Electronics"), Str("Books")}, query \in workload.queries :
          /\ query.category = Undefined /\ query.shopId = Undefined
          /\ query.search = Undefined
          /\ req' = [req EXCEPT ![r] =
                        [NoReq EXCEPT !.op = "getProductsByCategory",
                                      !.category = category, !.query = query]]
          /\ Listing(r, CategoryFilter(category), query)
    /\ UNCHANGED <<products, images, nextId, nextImg, deleted, workload, accounts, client>>

\* Product.countDocuments(filter) settles and the listing is answered.
countProducts(r) ==
    /\ pc[r] = "countProducts" /\ Delivered
    /\ Respond(r, 200,
          [success |-> TRUE,
           data |-> [products |-> loc[r].found,
                     pagination |->
                        [page |-> PageOf(req[r].query),
                         pages |-> Ceil(countDocuments(products, ListFilter(r)),
                                        LimitOf(req[r].query)),
                         total |-> countDocuments(products, ListFilter(r)),
                         limit |-> LimitOf(req[r].query)]]])
    /\ UNCHANGED <<products, images, nextId, nextImg, req, loc, deleted, workload, accounts, client>>

(* ---------------------------------------------------------------------- *)
(* Register (POST /api/auth/register) and the User collection              *)
(* ---------------------------------------------------------------------- *)
MinPasswordLen == 6

\* The lowercase setter of email.
Lowercase(email) ==
    CASE email = "A@x" -> "a@x"
      [] OTHER -> email

\* The JSON bodies sent to the register route; passwords by their length.
RegisterForms ==
    [username : {"ann", "bob"}, email : {"a@x", "A@x", "b@x"},
     password : {MinPasswordLen}]
    \cup {[username |-> "ann", email |-> "a@x", password |-> MinPasswordLen - 1],
          [username |-> "", email |-> "b@x", password |-> MinPasswordLen]}

\* Two registrations at a time.
AuthWorkload ==
    [slots |-> Slots, tokens |-> {}, errors |-> {}, users |-> {}, products |-> 0,
     creates |-> {}, patches |-> {}, queries |-> {}, forms |-> RegisterForms]

\* The messages of the User schema's validators that reject the form.
UserValidation(form) ==
    (IF form.username = "" THEN <<"Username is required">> ELSE <<>>)
    \o (IF form.email = "" THEN <<"Email is required">> ELSE <<>>)
    \o (IF form.password < MinPasswordLen
        THEN <<"Password must be at least 6 characters">> ELSE <<>>)

\* The unique indexes of the User collection: the fields of doc that collide
\* with a stored user.
Collisions(store, doc) ==
    {f \in {"email", "username"} : \E a \in store : a[f] = doc[f]}

\* The user document built from the form.
NewUser(form) ==
    [username |-> form.username, email |-> Lowercase(form.email),
     password |-> [k |-> "hash", length |-> form.password]]

\* The register request arrives: the form is looked up against the stored
\* users, then handed to the store.
register(r) ==
    /\ pc[r] = "idle" /\ r \in workload.slots /\ Delivered
    /\ \E form \in workload.forms :
          /\ req' = [req EXCEPT ![r] = [NoReq EXCEPT !.op = "register", !.body = form]]
          /\ IF Collisions(accounts, NewUser(form)) # {}
             THEN /\ loc' = [loc EXCEPT ![r].failed = "exists"]
                  /\ Respond(r, 400, Failure("User already exists"))
             ELSE /\ loc' = [loc EXCEPT ![r].data = NewUser(form),
                                        ![r].calls = {"create"}]
                  /\ pc' = [pc EXCEPT ![r] = "registerSave"]
                  /\ resp' = resp
    /\ UNCHANGED <<products, images, nextId, nextImg, deleted, workload, accounts, client>>

\* The write settles: validation, then the insert under the unique indexes;
\* an error goes to the error middleware.
registerSave(r) ==
    /\ pc[r] = "registerSave" /\ Delivered
    /\ IF UserValidation(req[r].body) # <<>>
       THEN /\ loc' = [loc EXCEPT ![r].failed = "validation"]
            /\ Respond(r, errorHandler(ValidationError(UserValidation(req[r].body))).status,
                          errorHandler(ValidationError(UserValidation(req[r].body))).body)
            /\ accounts' = accounts
       ELSE IF Collisions(accounts, loc[r].data) # {}
       THEN /\ \E f \in Collisions(accounts, loc[r].data) :
                  /\ loc' = [loc EXCEPT ![r].failed = "E11000", ![r].found = <<f>>]
                  /\ Respond(r, errorHandler(DuplicateKeyError(f)).status,
                                errorHandler(DuplicateKeyError(f)).body)
            /\ accounts' = accounts
       ELSE /\ accounts' = accounts \cup
                  {loc[r].data @@ [_id |-> Cardinality(accounts) + 1]}
            /\ loc' = loc
            /\ Respond(r, 201,
                  [success |-> TRUE,
                   message |-> "User registered successfully",
                   data |-> [user |-> [username |-> loc[r].data.username,
                                       email |-> loc[r].data.email],
                             token |-> Token(loc[r].data.username)]])
    /\ UNCHANGED <<products, images, nextId, nextImg, req, deleted, workload, client>>

(* ---------------------------------------------------------------------- *)
(* The browser client's session                                            *)
(* ---------------------------------------------------------------------- *)
\* response.data.user
User(name) == [k |-> "user", name |-> name]

\* A fetch under way: the endpoint, the Authorization header apiCall attached
\* when it was sent, and the user whose credentials the form held.
ApiCall(endpoint, token, name) ==
    [endpoint |-> endpoint, token |-> token, name |-> name]

\* The fetch of /auth/me sent when the page loads with a saved token.
RestoreCalls(saved) ==
    IF saved = Null THEN {} ELSE {ApiCall("/auth/me", saved, "none")}

\* DOMContentLoaded: the page (re)loads; the globals start as null, a saved
\* token becomes currentToken and getCurrentUser() is called.  The fetches of
\* the page before are gone with it.
DOMContentLoaded ==
    /\ currentUser' = Null
    /\ currentToken' = localStorage
    /\ apiCalls' = RestoreCalls(localStorage)
    /\ localStorage' = localStorage
    /\ apiCalls' # apiCalls \/ currentUser # Null \/ currentToken # localStorage
    /\ UNCHANGED server

\* The login form is submitted: apiCall('/auth/login') is sent.  The submit
\* button is disabled until it settles.
handleLogin ==
    /\ currentUser = Null     \* the button that opens the form is shown
    /\ \A c \in apiCalls : c.endpoint # "/auth/login"
    /\ \E name \in Users :
          apiCalls' = apiCalls \cup {ApiCall("/auth/login", currentToken, name)}
    /\ UNCHANGED <<currentUser, currentToken, localStorage>>
    /\ UNCHANGED server

\* The register form is submitted: apiCall('/auth/register') is sent.
handleRegister ==
    /\ currentUser = Null     \* the button that opens the form is shown
    /\ \A c \in apiCalls : c.endpoint # "/auth/register"
    /\ \E name \in Users :
          apiCalls' = apiCalls \cup {ApiCall("/auth/register", currentToken, name)}
    /\ UNCHANGED <<currentUser, currentToken, localStorage>>
    /\ UNCHANGED server

\* The login or register fetch settles: with {token, user} of the user the
\* form named, or with an error, which is only shown.
sessionSettles ==
    \E c \in apiCalls :
        /\ c.endpoint \in {"/auth/login", "/auth/register"}
        /\ apiCalls' = apiCalls \ {c}
        /\ \/ /\ currentToken' = Token(c.name)
              /\ currentUser' = User(c.name)
              /\ localStorage' = Token(c.name)
           \/ UNCHANGED <<currentUser, currentToken, localStorage>>
        /\ UNCHANGED server

\* logout(): the logout button, shown while a user is logged in.
logout ==
    /\ currentUser # Null
    /\ currentToken' = Null
    /\ currentUser' = Null
    /\ localStorage' = Null
    /\ apiCalls' = apiCalls
    /\ UNCHANGED server

\* The fetch of getCurrentUser() settles: with the user of the token it was
\* sent with, or with an error (the token no longer verifies, the network
\* failed), on which the client logs out.
getCurrentUser ==
    \E c \in apiCalls :
        /\ c.endpoint = "/auth/me"
        /\ apiCalls' = apiCalls \ {c}
        /\ \/ /\ VerifyToken(c.token) # "none"
              /\ currentUser' = User(VerifyToken(c.token))
              /\ UNCHANGED <<currentToken, localStorage>>
           \/ /\ currentToken' = Null
              /\ currentUser' = Null
              /\ localStorage' = Null
        /\ UNCHANGED server

(* ---------------------------------------------------------------------- *)
(* The service                                                             *)
(* ---------------------------------------------------------------------- *)
\* The response has been delivered and the slot takes the next request.
Finish(r) ==
    /\ pc[r] = "done"
    /\ pc' = [pc EXCEPT ![r] = "idle"]
    /\ req' = [req EXCEPT ![r] = NoReq]
    /\ loc' = [loc EXCEPT ![r] = NoLoc]
    /\ resp' = [resp EXCEPT ![r] = NoResp]
    /\ UNCHANGED <<products, images, nextId, nextImg, deleted, workload, accounts, client>>

Next ==
    \E r \in Slots :
        \/ createProduct(r)
        \/ createUpload(r)
        \/ createSave(r)
        \/ updateProduct(r)
        \/ updateDestroy(r)
        \/ updateUpload(r)
        \/ updateWrite(r)
        \/ deleteProduct(r)
        \/ deleteDestroy(r)
        \/ deleteRecord(r)
        \/ getProduct(r)
        \/ getProducts(r)
        \/ getProductsByCategory(r)
        \/ countProducts(r)
        \/ unauthorized(r)
        \/ uploadRejected(r)
        \/ jsonRejected(r)
        \/ apiFallback(r)
        \/ Finish(r)

Init == Start(RaceWorkload)
InitForms == Start(FormsWorkload)
InitList == Start(ListWorkload)
InitOwners == Start(OwnersWorkload)

Spec == Init /\ [][Next]_vars
SpecForms == InitForms /\ [][Next]_vars
SpecList == InitList /\ [][Next]_vars
SpecOwners == InitOwners /\ [][Next]_vars

\* The auth routes on their own.
NextAuth ==
    \E r \in Slots :
        \/ register(r)
        \/ registerSave(r)
        \/ Finish(r)

\* The browser client on its own, from the first load of the page with any
\* token saved by an earlier visit.
NextClient ==
    \/ DOMContentLoaded
    \/ handleLogin
    \/ handleRegister
    \/ sessionSettles
    \/ logout
    \/ getCurrentUser

InitClient ==
    /\ workload = AuthWorkload
    /\ products = <<>>
    /\ images = {}
    /\ nextId = 1
    /\ nextImg = 1
    /\ pc = [r \in Slots |-> "idle"]
    /\ req = [r \in Slots |-> NoReq]
    /\ loc = [r \in Slots |-> NoLoc]
    /\ resp = [r \in Slots |-> NoResp]
    /\ deleted = {}
    /\ accounts = {}
    /\ \E saved \in {Null, BadToken} \cup {Token(u) : u \in Users} :
          /\ localStorage = saved
          /\ currentUser = Null
          /\ currentToken = saved
          /\ apiCalls = RestoreCalls(saved)

SpecClient == InitClient /\ [][NextClient]_vars

InitAuth == Start(AuthWorkload)
SpecAuth == InitAuth /\ [][NextAuth]_vars

(* ---------------------------------------------------------------------- *)
(* Properties                                                              *)
(* ---------------------------------------------------------------------- *)
Done(r, op) == pc[r] = "done" /\ req[r].op = op

\* The calls that reach the image store or write to the document store.
Effects == {"upload", "destroy", "save", "findByIdAndUpdate", "findByIdAndDelete"}

\* C1: an update or delete whose requester is not the owner of the product
\* read is answered 403 without any image-store call or record write, and
\* the step that answers it leaves the collection and the image store as
\* they were.
NonOwnerHandled ==
    \A r \in Slots :
        (/\ req[r].op \in {"updateProduct", "deleteProduct"}
         /\ loc[r].product # Undefined
         /\ loc[r].product.shopId # ObjectId(req[r].user))
        => /\ pc[r] = "done"
           /\ resp[r].status = 403
           /\ resp[r].body.success = FALSE
           /\ loc[r].calls \cap Effects = {}
           /\ loc[r].destroyed = {}

NonOwnerStep ==
    \A r \in Slots :
        (pc'[r] = "done" /\ pc[r] # "done" /\ resp'[r].status = 403)
        => (products' = products /\ images' = images)

NonOwnerRejected == []NonOwnerHandled /\ [][NonOwnerStep]_vars

NonOwnerRejectedWitness ==
    \E r \in Slots :
        /\ Done(r, "updateProduct")
        /\ req[r].file = "file"
        /\ req[r].id \in DOMAIN products
        /\ products[req[r].id].shopId # ObjectId(req[r].user)
        /\ resp[r].status = 403

\* C2 (as claimed): when the upload of the new image fails in an update, the
\* record is unchanged and the old image is still in the image store.
UploadFailureKeepsOldImage ==
    \A r \in Slots :
        (Done(r, "updateProduct") /\ loc[r].failed = "upload")
        => /\ loc[r].product.imagePublicId.n \in images
           /\ findById(products, req[r].id) = loc[r].product

\* C3 (as claimed): when destroying the image fails in a delete, the record
\* delete is still attempted.
DestroyFailureStillDeletes ==
    \A r \in Slots :
        (Done(r, "deleteProduct") /\ loc[r].failed = "destroy")
        => "findByIdAndDelete" \in loc[r].calls

\* C4: a product that appears in the collection carries the id of the user
\* whose create request is being saved, and no step changes the shopId of a
\* stored product.
OwnerStep ==
    \A id \in DOMAIN products' :
        IF id \in DOMAIN products
        THEN products'[id].shopId = products[id].shopId
        ELSE \E r \in Slots :
                /\ pc[r] = "createSave"
                /\ pc'[r] = "done"
                /\ products'[id].shopId = ObjectId(req[r].user)

OwnerNeverChanges == [][OwnerStep]_vars

OwnerNeverChangesWitness ==
    \E r \in Slots :
        /\ Done(r, "updateProduct")
        /\ req[r].body.shopId = Str("u2")
        /\ resp[r].status = 200
        /\ req[r].id \in DOMAIN products
        /\ products[req[r].id].shopId = ObjectId("u1")

\* C5: the imageURL and the imagePublicId of every stored product come from
\* the same upload result.
ImageFieldsMatch ==
    \A id \in DOMAIN products :
        products[id].imageURL.n = products[id].imagePublicId.n

ImageFieldsMatchWitness ==
    \E r, q \in Slots :
        /\ r # q
        /\ Done(r, "updateProduct") /\ resp[r].status = 200
        /\ req[r].file = "file"
        /\ req[q].op = "updateProduct" /\ pc[q] = "updateWrite"
        /\ req[q].file = "file"
        /\ req[q].id = req[r].id
        /\ req[r].id \in DOMAIN products
        /\ products[req[r].id].imagePublicId # loc[r].product.imagePublicId

\* C6: an id whose delete was answered with success is not in the
\* collection, a getProduct for it is answered 404, and no listing query
\* returns it.
DeletedStaysGone == deleted \cap DOMAIN products = {}

DeletedStep ==
    \A r \in Slots :
        /\ (pc[r] = "idle" /\ pc'[r] = "done" /\ req'[r].op = "getProduct"
            /\ req'[r].id \in deleted)
           => (resp'[r].status = 404 /\ resp'[r].body.success = FALSE)
        /\ (pc[r] = "idle" /\ pc'[r] = "countProducts")
           => \A k \in 1..Len(loc'[r].found) : loc'[r].found[k]._id \notin deleted

DeletedNotFound == []DeletedStaysGone /\ [][DeletedStep]_vars

DeletedNotFoundWitness ==
    \E r \in Slots :
        /\ Done(r, "getProduct")
        /\ req[r].id \in deleted
        /\ resp[r].status = 404

\* C7: a create request without an image file is answered 400 at once: no
\* upload, no save, and the collection and the image store stay as they were.
NoImageHandled ==
    \A r \in Slots :
        (req[r].op = "createProduct" /\ req[r].file = "none")
        => /\ pc[r] = "done"
           /\ resp[r].status = 400
           /\ resp[r].body.success = FALSE
           /\ loc[r].calls = {}

NoImageStep ==
    \A r \in Slots :
        (pc[r] = "idle" /\ req'[r].op = "createProduct" /\ req'[r].file = "none")
        => (products' = products /\ images' = images)

NoImageRejected == []NoImageHandled /\ [][NoImageStep]_vars

NoImageRejectedWitness ==
    \E r \in Slots :
        /\ Done(r, "createProduct")
        /\ req[r].file = "none"
        /\ resp[r].status = 400
        /\ products = <<>>
        /\ images = {}

\* The constraint violations of a create form: a required field missing, a
\* category outside the enumeration, a title or description too long, a
\* negative price.
Violates(body) ==
    \/ body.title = Undefined
    \/ body.description = Undefined
    \/ body.category = Undefined
    \/ (body.category # Undefined /\ body.category.s \notin Categories)
    \/ (body.title # Undefined /\ Len(body.title.s) > TitleMaxLen)
    \/ (body.description # Undefined /\ Len(body.description.s) > DescriptionMaxLen)
    \/ (body.price.k = "numeral" /\ body.price.n < 0)

\* C8 (as claimed): a create request with an image whose form violates a
\* constraint is answered 400 once its upload has gone through.  (That no
\* record is persisted holds: createSave leaves the collection alone.)
ViolationAnswered400 ==
    \A r \in Slots :
        (/\ Done(r, "createProduct")
         /\ req[r].file = "file"
         /\ Violates(req[r].body)
         /\ loc[r].failed # "upload")
        => resp[r].status = 400

\* C9: a listing by category c with page p >= 1 and limit l >= 1 returns at
\* most l products, all of category c, and pagination page = p, limit = l,
\* total = the number of stored products of category c, pages = the least
\* number of pages of l that hold total.
IsCategoryListing(r) ==
    /\ pc[r] = "done"
    /\ req[r].query.page.k = "numeral" /\ req[r].query.page.n >= 1
    /\ req[r].query.limit.k = "numeral" /\ req[r].query.limit.n >= 1
    /\ \/ /\ req[r].op = "getProducts"
          /\ req[r].query.category # Undefined
          /\ req[r].query.shopId = Undefined
          /\ req[r].query.search = Undefined
       \/ req[r].op = "getProductsByCategory"

ListedCategory(r) ==
    IF req[r].op = "getProducts" THEN req[r].query.category ELSE req[r].category

CategoryPage ==
    \A r \in Slots :
        IsCategoryListing(r) =>
            LET page == resp[r].body.data.pagination
                list == resp[r].body.data.products
                l == req[r].query.limit.n
                stored == {id \in DOMAIN products :
                              products[id].category = ListedCategory(r)}
            IN  /\ resp[r].status = 200
                /\ Len(list) <= l
                /\ \A k \in 1..Len(list) : list[k].category = ListedCategory(r)
                /\ page.page = req[r].query.page.n
                /\ page.limit = l
                /\ page.total = Cardinality(stored)
                /\ page.pages * l >= page.total
                /\ (page.pages - 1) * l < page.total

CategoryPageWitness ==
    \E r \in Slots :
        /\ IsCategoryListing(r)
        /\ req[r].op = "getProducts"
        /\ req[r].query.page.n = 2
        /\ req[r].query.limit.n = 1
        /\ resp[r].body.data.pagination.total = 2
        /\ resp[r].body.data.pagination.pages = 2
        /\ Len(resp[r].body.data.products) = 1
        /\ \E id \in DOMAIN products :
              products[id].category # req[r].query.category

\* C10 (as claimed): getProduct, updateProduct and deleteProduct answer 404
\* when findById yields no product, be the id unknown or malformed.
NoProductAnswered404 ==
    \A r \in Slots :
        (/\ pc[r] = "done"
         /\ req[r].op \in {"getProduct", "updateProduct", "deleteProduct"}
         /\ loc[r].product = Undefined)
        => resp[r].status = 404

(* ---------------------------------------------------------------------- *)
(* The error middleware and the error envelope                             *)
(* ---------------------------------------------------------------------- *)
\* err falls in none of the classes the error middleware singles out.
Unclassified(err) ==
    /\ err.name \notin {"CastError", "ValidationError"}
    /\ err.code # Num(DuplicateKey)
    /\ ~err.multer

\* C11: an error the error middleware does not classify is answered 500 with
\* a generic message, and the error's own message is not in the body.
UnclassifiedAnswered500 ==
    \A r \in Slots :
        (pc[r] = "done" /\ req[r].error # Undefined /\ Unclassified(req[r].error))
            => /\ resp[r].status = 500
               /\ resp[r].body.message # req[r].error.message

\* C12: every error response carries success = false and a message.
ErrorEnvelope ==
    \A r \in Slots :
        (pc[r] = "done" /\ resp[r].status >= 400)
            => /\ DOMAIN resp[r].body = {"success", "message"}
               /\ resp[r].body.success = FALSE

(* ---------------------------------------------------------------------- *)
(* Authentication before upload and handler                                *)
(* ---------------------------------------------------------------------- *)
PrivateOps == {"createProduct", "updateProduct", "deleteProduct"}
PublicOps == {"getProducts", "getProductsByCategory", "getProduct"}

\* Slot r holds a request on a private route whose token does not verify.
Unauthenticated(r) ==
    /\ req[r].op \in PrivateOps \/ req[r].route \in PrivateOps
    /\ VerifyToken(req[r].token) = "none"

AuthGate ==
    \A r \in Slots :
        /\ Unauthenticated(r)
              => /\ pc[r] = "done"
                 /\ req[r].op = "authMiddleware"
                 /\ resp[r].status = 401
                 /\ loc[r].calls = {}
        /\ (req[r].op \in PublicOps /\ pc[r] = "done")
              => (req[r].token = NoToken /\ resp[r].status # 401)

AuthStep ==
    \A r \in Slots :
        (pc[r] = "idle" /\ Unauthenticated(r)')
            => (products' = products /\ images' = images)

UpdatedFields ==
    {"title", "description", "category", "price", "inStock",
     "imageURL", "imagePublicId"}

\* Field f is absent from the request of slot r.
Absent(r, f) ==
    IF f \in {"imageURL", "imagePublicId"}
    THEN req[r].file = "none"
    ELSE req[r].body[f] = Undefined

\* The value the request of slot r supplies for field f, as the schema
\* stores it: strings trimmed, the price a number, inStock a boolean, the
\* image fields those of the image uploaded for this request.
Supplied(r, f) ==
    CASE f \in {"title", "description", "category"} -> CastPath(f, req[r].body[f])
      [] f = "price" -> parseNumber(req[r].body.price)
      [] f = "inStock" -> Bool(req[r].body.inStock # Str("false"))
      [] OTHER -> loc[r].data[f]

UpdateFrameStep ==
    \A r \in Slots :
        (/\ pc[r] = "updateWrite" /\ pc'[r] = "done"
         /\ resp'[r].status = 200
         /\ req[r].id \in DOMAIN products)
        => \A f \in UpdatedFields :
              products'[req[r].id][f] =
                  IF Absent(r, f) THEN products[req[r].id][f] ELSE Supplied(r, f)

\* C14 (as claimed): in a successful update by the owner a field absent from
\* the request keeps the value it had, and a field present in the request
\* takes the supplied value.
UpdateFrame == [][UpdateFrameStep]_vars

(* ---------------------------------------------------------------------- *)
(* Concurrent registrations                                                *)
(* ---------------------------------------------------------------------- *)
UniqueEmail ==
    \A a, b \in accounts : a.email = b.email => a = b

\* The request the unique index turned away is answered 400 with a message
\* that names the duplicated field.
LoserAnswered ==
    \A r \in Slots :
        (pc[r] = "done" /\ loc[r].failed = "E11000")
            => /\ resp[r].status = 400
               /\ resp[r].body.success = FALSE
               /\ resp[r].body.message =
                     (IF loc[r].found = <<"email">> THEN "Email already exists"
                      ELSE "Username already exists")

WinnerKept == accounts \subseteq accounts'

\* C15: of two concurrent registrations with one email at most one user with
\* that email is stored; the other is rejected by the unique index and
\* answered 400 with a message naming the field; the stored user is untouched.
RegisterRace == [](UniqueEmail /\ LoserAnswered) /\ [][WinnerKept]_vars

RegisterRaceWitness ==
    \E r \in Slots :
        /\ pc[r] = "done"
        /\ loc[r].failed = "E11000"
        /\ loc[r].found = <<"email">>
        /\ req[r].body.email = "A@x"
        /\ resp[r].body.message = "Email already exists"
        /\ \E a \in accounts : a.email = "a@x" /\ a.username # req[r].body.username

(* ---------------------------------------------------------------------- *)
(* Stored products satisfy the schema                                      *)
(* ---------------------------------------------------------------------- *)
\* Document p has an enumerated category, a non-empty title and description,
\* and no price or a price that is a number not below 0.
ValidDoc(p) ==
    /\ p.category.k = "string" /\ p.category.s \in Categories
    /\ p.title.k = "string" /\ p.title.s # <<>>
    /\ p.description.k = "string" /\ p.description.s # <<>>
    /\ p.price = Undefined \/ (p.price.k = "number" /\ p.price.n >= 0)

StoredValid == \A id \in DOMAIN products : ValidDoc(products[id])

\* The write slot r is about to make would store a document that is not valid.
Breaking(r) ==
    \/ pc[r] = "createSave" /\ ~ValidDoc(loc[r].data)
    \/ /\ pc[r] = "updateWrite"
       /\ req[r].id \in DOMAIN products
       /\ ~ValidDoc(findByIdAndUpdate(products, req[r].id, loc[r].data)[req[r].id])

BreakingStep ==
    \A r \in Slots :
        (Breaking(r) /\ pc'[r] = "done")
            => (products' = products /\ resp'[r].status >= 400)

\* C16: every stored product has an enumerated category, a non-empty title
\* and description and an absent or non-negative price; a create or update
\* that would store anything else is rejected and leaves the records as they
\* were.
StoredProductsValid == []StoredValid /\ [][BreakingStep]_vars

StoredProductsValidWitness ==
    \E r \in Slots :
        /\ pc[r] = "done"
        /\ req[r].op = "updateProduct"
        /\ req[r].body.category = Str("Gadgets")
        /\ loc[r].failed = "validation"
        /\ resp[r].status = 500
        /\ req[r].id \in DOMAIN products
        /\ products[req[r].id].category = Str("Electronics")

(* ---------------------------------------------------------------------- *)
(* Paging parameters                                                       *)
(* ---------------------------------------------------------------------- *)
\* The query value is absent, not a number, or zero.
Defaulted(v) == v \in {Undefined, Empty, Junk, Numeral(0)}

\* C17 (as claimed): the two listings take page 1 and limit 10 for an absent,
\* non-numeric or zero parameter, and for every page and limit sent the skip
\* is not negative, the limit is positive and the query does not fail on them.
PagingSafe ==
    \A r \in Slots :
        req[r].op \in {"getProducts", "getProductsByCategory"}
            => /\ Defaulted(req[r].query.page) => PageOf(req[r].query) = 1
               /\ Defaulted(req[r].query.limit) => LimitOf(req[r].query) = 10
               /\ SkipOf(req[r].query) >= 0
               /\ LimitOf(req[r].query) > 0
               /\ loc[r].failed = "find" => ListFilter(r).shopId = Junk

(* ---------------------------------------------------------------------- *)
(* Images and records                                                      *)
(* ---------------------------------------------------------------------- *)
\* No product request is in flight.
Quiet == \A r \in Slots : pc[r] \in {"idle", "done"}

\* The stored products that reference image i.
Referencing(i) ==
    {id \in DOMAIN products : products[id].imagePublicId = PublicId(i)}

\* C18 (as claimed): with no request in flight, every image uploaded and not
\* deleted is referenced by exactly one stored product, and the imagePublicId
\* of every stored product names an image held by the image store.
ImagesMatchRecords ==
    Quiet => /\ \A i \in images : Cardinality(Referencing(i)) = 1
             /\ \A id \in DOMAIN products : products[id].imagePublicId.n \in images

(* ---------------------------------------------------------------------- *)
(* The client's session state                                              *)
(* ---------------------------------------------------------------------- *)
SessionConsistent ==
    currentUser # Null
        => /\ currentToken # Null
           /\ currentToken = localStorage
           /\ currentUser = User(VerifyToken(currentToken))

\* The response of a getCurrentUser sent with another token than the current
\* one leaves a logged-in session as it is.
LateRestoreStep ==
    \A c \in apiCalls :
        (/\ c.endpoint = "/auth/me"
         /\ apiCalls' = apiCalls \ {c}
         /\ currentUser # Null
         /\ c.token # currentToken)
        => UNCHANGED <<currentUser, currentToken, localStorage>>

\* C19 (as claimed): in the browser client, whenever currentUser is set,
\* currentToken is set, equals the token saved in localStorage and is the
\* token of currentUser; a late getCurrentUser response for an older saved
\* token neither overwrites nor logs out the session of a later login.
ClientSession == []SessionConsistent /\ [][LateRestoreStep]_vars

====
